---------------------------- MODULE Spec2Model ----------------------------
(***************************************************************************)
(* A model of aks-storage.py: the orchestration script that provisions a   *)
(* resource group, a managed identity, a storage account and an AKS        *)
(* cluster through the az and kubectl command line tools, and then runs a  *)
(* verification job for one or several storage use cases.                  *)
(*                                                                         *)
(* Strings whose characters matter (the group, the unique id and the names *)
(* derived from them) are sequences of one-character strings.  Every       *)
(* external command is one action: it picks the exit code and, where the   *)
(* code reads it, the standard output of the command, and then runs the    *)
(* code up to the next external command.                                   *)
(***************************************************************************)
EXTENDS Integers, Sequences, FiniteSets, TLC

(***************************************************************************)
(* Bounds of the model.                                                    *)
(***************************************************************************)
\* Longest group string drawn by the configuration specification.
MaxGroupLen == 26

(***************************************************************************)
(* Program constants.                                                      *)
(***************************************************************************)
\* sa_name[:24]
StorageAccountMaxLen == 24
\* max_retries = 3
max_retries == 3

(***************************************************************************)
(* Characters and strings.                                                 *)
(***************************************************************************)
Lowercase == {"a", "b", "c", "d", "e", "f", "g", "h", "i", "j", "k", "l", "m",
              "n", "o", "p", "q", "r", "s", "t", "u", "v", "w", "x", "y", "z"}
Digits == {"0", "1", "2", "3", "4", "5", "6", "7", "8", "9"}
\* string.ascii_lowercase + string.digits
LowerAlnum == Lowercase \cup Digits

Min(a, b) == IF a < b THEN a ELSE b

\* s[:n]
Take(s, n) == SubSeq(s, 1, Min(n, Len(s)))

\* s.replace("-", "")
RECURSIVE StripHyphens(_)
StripHyphens(s) ==
    IF s = <<>> THEN <<>>
    ELSE IF Head(s) = "-" THEN StripHyphens(Tail(s))
    ELSE <<Head(s)>> \o StripHyphens(Tail(s))

\* TRUE iff t occurs in s as a contiguous substring.
Contains(s, t) ==
    \E i \in 0..(Len(s) - Len(t)) : SubSeq(s, i + 1, i + Len(t)) = t

(***************************************************************************)
(* StorageType, ProvisionType and the Config record.                       *)
(***************************************************************************)
StorageType == {"Blob", "File"}
ProvisionType == {"Persistent", "Dynamic"}
\* An option that was not given on the command line, or a missing keyword.
None == "None"

\* The group strings and identifiers the run can be given.  The identifier
\* is six characters drawn from LowerAlnum.
DefaultGroup == <<"a", "k", "s", "-", "s", "t", "o", "r", "a", "g", "e", "-", "p", "o", "c">>
UniqueIds == {<<"a", "b", "c", "1", "2", "3">>, <<"x", "7", "y", "8", "z", "9">>}

\* f"{group}-{unique_id}-rg"
ResourceGroupName(group, unique_id) ==
    group \o <<"-">> \o unique_id \o <<"-", "r", "g">>

\* f"{group}{unique_id}sa".replace("-", "")[:24]
StorageAccountNameNoCut(group, unique_id) ==
    StripHyphens(group \o unique_id \o <<"s", "a">>)
StorageAccountName(group, unique_id) ==
    Take(StripHyphens(group \o unique_id \o <<"s", "a">>), StorageAccountMaxLen)

\* f"{group}-{unique_id}-identity"
IdentityName(group, unique_id) ==
    group \o <<"-">> \o unique_id \o <<"-", "i", "d", "e", "n", "t", "i", "t", "y">>

\* f"{group}-{unique_id}-aks"
ClusterName(group, unique_id) ==
    group \o <<"-">> \o unique_id \o <<"-", "a", "k", "s">>

\* The default of allow_shared_key_access when it is not given: False only
\* for Blob storage with static provisioning.
DefaultSharedKeyAlwaysTrue(storage_type, provision_type) == "True"
DefaultSharedKey(storage_type, provision_type) ==
    IF storage_type = "Blob" /\ provision_type = "Persistent" THEN "False" ELSE "True"

\* The keyword arguments of Config(...): an omitted string is <<>>, an
\* omitted storage_type or provision_type is None, and
\* allow_shared_key_access is "None", "True" or "False".
ConfigArgs(g, st, pt, uid, rg, sa, allow) ==
    [group |-> g, storage_type |-> st, provision_type |-> pt, unique_id |-> uid,
     resource_group |-> rg, storage_account |-> sa, identity_name |-> <<>>,
     cluster_name |-> <<>>, allow_shared_key_access |-> allow]

\* Config.__init__: rnd is the value random.choices returns.
Config(data, rnd) ==
    LET st  == IF data.storage_type = None THEN "Blob" ELSE data.storage_type
        pt  == IF data.provision_type = None THEN "Persistent" ELSE data.provision_type
        uid == IF data.unique_id = <<>> THEN rnd ELSE data.unique_id
    IN  [group |-> data.group,
         storage_type |-> st,
         provision_type |-> pt,
         unique_id |-> uid,
         resource_group |->
             IF data.resource_group = <<>> THEN ResourceGroupName(data.group, uid)
             ELSE data.resource_group,
         storage_account |->
             IF data.storage_account = <<>> THEN StorageAccountName(data.group, uid)
             ELSE data.storage_account,
         identity_name |->
             IF data.identity_name = <<>> THEN IdentityName(data.group, uid)
             ELSE data.identity_name,
         cluster_name |->
             IF data.cluster_name = <<>> THEN ClusterName(data.group, uid)
             ELSE data.cluster_name,
         allow_shared_key_access |->
             IF data.allow_shared_key_access = "None" THEN DefaultSharedKey(st, pt)
             ELSE data.allow_shared_key_access]

\* The value of a Config variable before the record is constructed.
NoConfig ==
    [group |-> <<>>, storage_type |-> None, provision_type |-> None,
     unique_id |-> <<>>, resource_group |-> <<>>, storage_account |-> <<>>,
     identity_name |-> <<>>, cluster_name |-> <<>>,
     allow_shared_key_access |-> "None"]


(***************************************************************************)
(* The state of a run of main.                                             *)
(***************************************************************************)
VARIABLES
    group,                    \* --group
    in_storage,               \* --storage as given (None when omitted)
    in_provision,             \* --provision as given (None when omitted)
    disable_shared_key,       \* --disable-shared-key
    in_allow,                 \* allow_shared_key_access as given to Config directly
    storage,                  \* main's local storage, after forcing and defaults
    provision,                \* main's local provision, after forcing and defaults
    allow_shared_key_access,  \* main's local allow_shared_key_access
    run_all_cases,
    run_all_storage_types,
    run_all_provision_types,
    use_cases,                \* the filtered list of use cases (multi-case mode)
    config,                   \* the Config of single-case mode
    base_config,              \* the base Config of multi-case mode
    case_config,              \* the Config of the current use case
    azure_manager,            \* the AzureManager of single-case mode / the shared one
    case_manager,             \* the AzureManager of the current use case
    i,                        \* the index of the current use case (enumerate from 1)
    keyless_support,          \* main's local keyless_support
    case_storage_failed,      \* the container or share command of the use case failed
    results,                  \* the rows of the results table
    pc,                       \* the external command the program is about to issue
    ctx,                      \* which try block is running: single, shared or case
    steps,                    \* the provisioning steps invoked so far
    exit_code,                \* the exit status of the process, -1 while it runs
    retry_count,              \* create_storage_account's local retry_count
    manifest,                 \* the index of the manifest being applied
    node_resource_group,      \* assign_roles' local node_resource_group
    last,                     \* the last external command issued, with its exit code
    issued,                   \* the kinds of external command issued so far
    count,                    \* how many times each creation command was issued
    all_succeeded,            \* no external command returned a non-zero exit code
    sleeps,                   \* the number of calls of time.sleep(5)
    temp_files,               \* the temporary manifest files that exist
    assignments,              \* how many times each manager field was assigned
    node_rg_early             \* a node resource group was returned for a cluster
                              \* whose creation was not issued in this run

argVars == <<group, in_storage, in_provision, disable_shared_key, in_allow>>
flagVars == <<storage, provision, allow_shared_key_access, run_all_cases,
              run_all_storage_types, run_all_provision_types, use_cases>>
cfgVars == <<config, base_config, case_config>>
mgrVars == <<azure_manager, case_manager>>
loopVars == <<i, keyless_support, case_storage_failed>>
ctlVars == <<pc, ctx, steps, results, exit_code>>
localVars == <<retry_count, manifest, node_resource_group>>
cmdVars == <<last, issued, count, all_succeeded>>
histVars == <<sleeps, temp_files, assignments, node_rg_early>>
vars == <<argVars, flagVars, cfgVars, mgrVars, loopVars, ctlVars, localVars, cmdVars,
          histVars>>

\* Exit codes of an external command, and what it may print on stdout
\* (after strip()): nothing, or a value.
ReturnCodes == {0, 1}
Stdout(value) == {"", value}

\* AzureManager.__init__: the fields of a manager over config c.
AzureManager(c) ==
    [config |-> c, storage_account_id |-> "", identity_principal_id |-> "",
     identity_client_id |-> "", oidc_issuer_url |-> ""]
NoManager == AzureManager(NoConfig)

\* No command issued yet.
NoCommand ==
    [kind |-> "none", tool |-> "none", rc |-> 0, out |-> "", flags |-> {},
     assignee |-> "", scope |-> "", name |-> << >>, claimName |-> << >>]

\* The record of an external command: its call site, its tool, its exit
\* code, its standard output where the code reads it ("" otherwise), the
\* optional arguments of interest and, for a role assignment, the values of
\* --assignee and --scope.
Command(kind, tool, rc, flags, assignee, scope) ==
    [kind |-> kind, tool |-> tool, rc |-> rc, out |-> "", flags |-> flags,
     assignee |-> assignee, scope |-> scope, name |-> << >>, claimName |-> << >>]

\* The commands that create the resource group, the identity, the cluster
\* and the storage account.
CountedKinds ==
    {"az group create", "az identity create", "az aks create",
     "az storage account create"}

\* subprocess.run of command c.
Run(c) ==
    /\ last' = c
    /\ issued' = issued \cup {c.kind}
    /\ count' = IF c.kind \in CountedKinds THEN [count EXCEPT ![c.kind] = @ + 1]
                 ELSE count
    /\ all_succeeded' = (all_succeeded /\ c.rc = 0)

Issue(kind, tool, rc, flags) == Run(Command(kind, tool, rc, flags, "", ""))

\* A command of az whose standard output the code reads.
IssueRead(kind, rc, flags, out) ==
    Run([Command(kind, "az", rc, flags, "", "") EXCEPT !.out = out])

\* A command of kubectl on the resource called name: the manifest applied
\* (with the claimName it refers to, if any) or the job waited for or read.
\* A name is the sequence of its words, which the name joins with "-".
IssueKubectl(kind, rc, flags, name, claimName) ==
    Run([Command(kind, "kubectl", rc, flags, "", "") EXCEPT
            !.name = name, !.claimName = claimName])

IssueRole(kind, rc, role, assignee, scope) ==
    Run(Command(kind, "az", rc, {role}, assignee, scope))

\* The fields of a manager that are discovered during the run, and the
\* number of assignments made to each after AzureManager.__init__.
Attributes ==
    {"identity_client_id", "identity_principal_id", "oidc_issuer_url",
     "storage_account_id"}
IdentityAttributes == {"identity_client_id", "identity_principal_id", "oidc_issuer_url"}
NoAssignments == [a \in Attributes |-> 0]
\* The counts after one more assignment to each field of attrs.
Assigned(n, attrs) == [a \in Attributes |-> IF a \in attrs THEN n[a] + 1 ELSE n[a]]

\* A temporary manifest file that was not unlinked: the manifest it holds
\* and whether its kubectl apply succeeded.
TempFile(description, rc) == [manifest |-> description, applied |-> rc = 0]

(***************************************************************************)
(* main: flag validation and the choice of the use cases.                  *)
(***************************************************************************)
\* Lines 1580-1591: a conflicting flag given with --disable-shared-key.
ValidationErrorStorageOnly(disable, s, p) ==
    disable /\ s # None /\ s # "Blob"
ValidationError(disable, s, p) ==
    disable /\ ((s # None /\ s # "Blob") \/ (p # None /\ p # "Persistent"))

\* Lines 1597 and 1612.
RunAllCasesNoOverride(disable, s, p) == s = None /\ p = None
RunAllCases(disable, s, p) == IF disable THEN FALSE ELSE s = None /\ p = None
\* Lines 1598 and 1613.
RunAllStorageTypesNoOverride(disable, s, p) == s = None /\ p # None
RunAllStorageTypes(disable, s, p) == IF disable THEN FALSE ELSE s = None /\ p # None
\* Lines 1599 and 1614.
RunAllProvisionTypes(disable, s, p) == IF disable THEN FALSE ELSE s # None /\ p = None

all_use_cases ==
    << [storage |-> "Blob", provision |-> "Persistent", name |-> "Blob-Static"],
       [storage |-> "Blob", provision |-> "Dynamic", name |-> "Blob-Dynamic"],
       [storage |-> "File", provision |-> "Persistent", name |-> "File-Static"],
       [storage |-> "File", provision |-> "Dynamic", name |-> "File-Dynamic"] >>

\* Lines 1692-1703, with s and p the values of storage and provision after
\* the defaults of lines 1622-1629.
UseCasesWrongFilter(all, by_provision, by_storage, s, p) ==
    IF all THEN all_use_cases
    ELSE IF by_provision THEN LET keep(c) == c.storage = s IN SelectSeq(all_use_cases, keep)
    ELSE IF by_storage THEN LET keep(c) == c.provision = p IN SelectSeq(all_use_cases, keep)
    ELSE <<>>
UseCases(all, by_provision, by_storage, s, p) ==
    IF all THEN all_use_cases
    ELSE IF by_provision THEN LET keep(c) == c.provision = p IN SelectSeq(all_use_cases, keep)
    ELSE IF by_storage THEN LET keep(c) == c.storage = s IN SelectSeq(all_use_cases, keep)
    ELSE <<>>

\* Lines 1819-1828 and 2018-2026.
KeylessSupportIgnoresFlag(s, p, allow) == s = "Blob" /\ p = "Persistent"
KeylessSupport(s, p, allow) == s = "Blob" /\ p = "Persistent" /\ ~allow

\* Line 1576: allow_shared_key_access = not disable_shared_key.
AllowSharedKeyAccessAlwaysFalse(disable) == FALSE
AllowSharedKeyAccess(disable) == ~disable

\* str(allow_shared_key_access) as Config receives it.
BoolArg(b) == IF b THEN "True" ELSE "False"
\* Python truthiness of Config.allow_shared_key_access.
Truthy(v) == v = "True"

\* Lines 1748-1754.
NeedsStorageAccountAlways(cases) == TRUE
NeedsStorageAccount(cases) == \E n \in 1..Len(cases) : cases[n].provision = "Persistent"

(***************************************************************************)
(* The order in which main calls the provisioning steps, and their exits.  *)
(***************************************************************************)
\* Lines 2070-2092: the calls of single-case mode.
SingleStepsClusterFirst ==
    << "create_resource_group", "create_managed_identity", "create_aks_cluster",
       "create_storage_account", "assign_roles", "configure_workload_identity",
       "configure_storage" >>
SingleSteps ==
    << "create_resource_group", "create_managed_identity", "create_storage_account",
       "assign_roles", "create_aks_cluster", "configure_workload_identity",
       "configure_storage" >>

\* Lines 1731-1758: the calls of the shared setup of multi-case mode.
SharedSteps(needs_storage_account) ==
    << "create_resource_group", "create_managed_identity", "create_aks_cluster",
       "configure_workload_identity" >>
    \o (IF needs_storage_account THEN << "create_storage_account" >> ELSE << >>)

\* Lines 1947-1953: the calls made for each use case.
CaseSteps == << "assign_roles", "configure_storage" >>

\* The element of seq after name, or "end".
After(seq, name) ==
    LET n == CHOOSE m \in 1..Len(seq) : seq[m] = name
    IN  IF n < Len(seq) THEN seq[n + 1] ELSE "end"

\* Lines 758-761: assign_roles skips the role assignments on the storage
\* account.
SkipsStorageRolesWheneverDynamic(mgr) == mgr.config.provision_type = "Dynamic"
SkipsStorageRoles(mgr) ==
    mgr.storage_account_id = "" /\ mgr.config.provision_type = "Dynamic"

\* The first external command of a step called on manager mgr.
EntryPc(step, mgr) ==
    CASE step = "create_resource_group" -> "rg_create"
      [] step = "create_managed_identity" -> "id_create"
      [] step = "create_storage_account" -> "sa_check"
      [] step = "assign_roles" ->
            IF SkipsStorageRoles(mgr) THEN "ar_noderg" ELSE "ar_keyop"
      [] step = "create_aks_cluster" -> "aks_create"
      [] step = "configure_workload_identity" -> "wi_apply"
      [] step = "configure_storage" ->
            \* lines 1950-1953 and 2089-2092
            IF mgr.config.provision_type = "Persistent" THEN "st_apply" ELSE "dy_apply"

\* The manager a step runs on.
Self == IF ctx = "case" THEN case_manager ELSE azure_manager

CurrentStep == steps[Len(steps)].name
MarkDone(s) == [s EXCEPT ![Len(s)].done = TRUE]
Invoke(s, name, n) == Append(s, [name |-> name, case |-> n, done |-> FALSE])

\* One row of the results table.
Row(success) ==
    [case |-> use_cases[i].name, success |-> success, keyless |-> keyless_support]

\* What the process returns when main runs to its end; rows are the rows of
\* the results table (multi-case mode).
MainReturnCodeFailsOnFailedCase(rows) ==
    IF \E n \in 1..Len(rows) : ~rows[n].success THEN 1 ELSE 0
MainReturnCode(rows) == 0

\* typer.Exit derives from RuntimeError, so both kinds of raised error are
\* instances of Exception: "Exit" is typer.Exit(code=1), "Exception" is a
\* plain Exception.
ExceptionKinds == {"Exit", "Exception"}
\* Line 1960: except Exception around one use case.
InnerHandlerCatchesOnlyPlain(exc) == exc = "Exception"
InnerHandlerCatches(exc) == exc \in ExceptionKinds

\* display_command_result: raises typer.Exit(code=1) on a non-zero exit.
DisplayCommandResultNeverRaises(rc) == FALSE
DisplayCommandResultRaises(rc) == rc # 0

\* The running step returns normally; mgr is the manager the next step of
\* the same try block runs on.
Finish(mgr) ==
    LET seq == CASE ctx = "single" -> SingleSteps
                 [] ctx = "shared" -> SharedSteps(NeedsStorageAccount(use_cases))
                 [] ctx = "case" -> CaseSteps
        nxt == After(seq, CurrentStep)
    IN  IF nxt # "end"
        THEN /\ pc' = EntryPc(nxt, mgr)
             /\ steps' = Invoke(MarkDone(steps), nxt, i)
             /\ UNCHANGED <<ctx, results, exit_code>>
        ELSE /\ steps' = MarkDone(steps)
             /\ UNCHANGED ctx
             /\ CASE ctx = "single" ->
                       \* show_summary, then main returns
                       /\ pc' = "done"
                       /\ exit_code' = MainReturnCode(results)
                       /\ UNCHANGED results
                  [] ctx = "shared" ->
                       /\ pc' = IF NeedsStorageAccount(use_cases) THEN "m_verify" ELSE "loop"
                       /\ UNCHANGED <<results, exit_code>>
                  [] ctx = "case" ->
                       \* lines 1955-1958
                       /\ pc' = "loop"
                       /\ results' = Append(results, Row(TRUE))
                       /\ UNCHANGED exit_code

\* An error of kind exc is raised at the current command.
Raise(exc) ==
    IF ctx = "case" /\ InnerHandlerCatches(exc)
    THEN \* lines 1960-1970
         /\ pc' = "loop"
         /\ results' = Append(results, Row(FALSE))
         /\ UNCHANGED <<ctx, steps, exit_code>>
    ELSE \* lines 1986-1990 and 2107-2111: typer.Exit(code=1), whether the
         \* handler catches the error or a typer.Exit(code=1) passes through
         /\ pc' = "done"
         /\ exit_code' = 1
         /\ UNCHANGED <<ctx, steps, results>>

\* The running step goes on to its next command.
Goto(p) ==
    /\ pc' = p
    /\ UNCHANGED <<ctx, steps, results, exit_code>>

(***************************************************************************)
(* Initial states: the command line.                                       *)
(***************************************************************************)
\* The group string of the runs: the default of --group.  The names derived
\* from other groups are the subject of the configuration specification.
RunGroups == {DefaultGroup}

InitRun ==
    /\ storage = None
    /\ provision = None
    /\ allow_shared_key_access = TRUE
    /\ run_all_cases = FALSE
    /\ run_all_storage_types = FALSE
    /\ run_all_provision_types = FALSE
    /\ use_cases = << >>
    /\ config = NoConfig
    /\ base_config = NoConfig
    /\ case_config = NoConfig
    /\ azure_manager = NoManager
    /\ case_manager = NoManager
    /\ i = 0
    /\ keyless_support = FALSE
    /\ case_storage_failed = FALSE
    /\ results = << >>
    /\ ctx = "none"
    /\ steps = << >>
    /\ exit_code = -1
    /\ retry_count = 0
    /\ manifest = 0
    /\ node_resource_group = ""
    /\ last = NoCommand
    /\ issued = {}
    /\ count = [k \in CountedKinds |-> 0]
    /\ all_succeeded = TRUE
    /\ sleeps = 0
    /\ temp_files = {}
    /\ assignments = [azure_manager |-> NoAssignments, case_manager |-> NoAssignments]
    /\ node_rg_early = FALSE

Init ==
    /\ group \in RunGroups
    /\ in_storage \in StorageType \cup {None}
    /\ in_provision \in ProvisionType \cup {None}
    /\ disable_shared_key \in BOOLEAN
    /\ in_allow = None
    /\ pc = "start"
    /\ InitRun

(***************************************************************************)
(* main, lines 1575-1614: validation of the flags.                         *)
(***************************************************************************)
ValidateFlags ==
    /\ pc = "start"
    /\ allow_shared_key_access' = AllowSharedKeyAccess(disable_shared_key)
    /\ IF ValidationError(disable_shared_key, in_storage, in_provision)
       THEN \* raise typer.Exit(code=1), outside every try block
            /\ pc' = "done"
            /\ exit_code' = 1
            /\ UNCHANGED <<storage, provision, run_all_cases, run_all_storage_types,
                           run_all_provision_types>>
       ELSE /\ pc' = "select"
            /\ storage' = IF disable_shared_key THEN "Blob" ELSE in_storage
            /\ provision' = IF disable_shared_key THEN "Persistent" ELSE in_provision
            /\ run_all_cases' = RunAllCases(disable_shared_key, in_storage, in_provision)
            /\ run_all_storage_types' =
                   RunAllStorageTypes(disable_shared_key, in_storage, in_provision)
            /\ run_all_provision_types' =
                   RunAllProvisionTypes(disable_shared_key, in_storage, in_provision)
            /\ UNCHANGED exit_code
    /\ UNCHANGED <<argVars, histVars, use_cases, cfgVars, mgrVars, loopVars, ctx, steps,
                   results, localVars, cmdVars>>

(***************************************************************************)
(* main, lines 1622-1721 and 1994-2064: the defaults, the list of use      *)
(* cases and the configuration record.                                     *)
(***************************************************************************)
SelectMode ==
    /\ pc = "select"
    /\ LET s1 == IF storage = None /\ provision # None THEN "Blob" ELSE storage
           p1 == IF provision = None /\ s1 # None THEN "Persistent" ELSE provision
       IN  IF run_all_cases \/ run_all_storage_types \/ run_all_provision_types
           THEN \* multi-case mode
                /\ storage' = s1
                /\ provision' = p1
                /\ use_cases' = UseCases(run_all_cases, run_all_storage_types,
                                         run_all_provision_types, s1, p1)
                /\ \E rnd \in UniqueIds :
                       base_config' = Config(ConfigArgs(group, "Blob", "Persistent", << >>,
                                                        << >>, << >>,
                                                        BoolArg(allow_shared_key_access)), rnd)
                /\ IF disable_shared_key /\ run_all_cases
                   THEN \* lines 1716-1721
                        /\ pc' = "done"
                        /\ exit_code' = 1
                        /\ UNCHANGED ctx
                   ELSE /\ pc' = "mgr_init"
                        /\ ctx' = "shared"
                        /\ UNCHANGED exit_code
                /\ UNCHANGED <<config, keyless_support, case_storage_failed>>
           ELSE \* single-case mode
                LET s2 == IF s1 = None THEN "Blob" ELSE s1
                    p2 == IF p1 = None THEN "Persistent" ELSE p1
                IN  /\ storage' = s2
                    /\ provision' = p2
                    /\ keyless_support' = KeylessSupport(s2, p2, allow_shared_key_access)
                    /\ \E rnd \in UniqueIds :
                           config' = Config(ConfigArgs(group, s2, p2, << >>, << >>, << >>,
                                                       BoolArg(allow_shared_key_access)), rnd)
                    /\ pc' = "mgr_init"
                    /\ ctx' = "single"
                    /\ UNCHANGED <<use_cases, base_config, exit_code, case_storage_failed>>
    /\ UNCHANGED <<argVars, histVars, allow_shared_key_access, run_all_cases,
                   run_all_storage_types, run_all_provision_types, case_config, mgrVars, i,
                   steps, results, localVars, cmdVars>>

(***************************************************************************)
(* AzureManager.__init__ and _get_subscription_id, lines 263-297, with the *)
(* code of main that follows the construction of the manager.              *)
(***************************************************************************)
\* Lines 1863-1875: the identity of the shared manager, and its storage
\* account id for a Persistent case, are copied into the case manager.
CaseManager(c, shared) ==
    [AzureManager(c) EXCEPT
        !.identity_client_id = shared.identity_client_id,
        !.identity_principal_id = shared.identity_principal_id,
        !.oidc_issuer_url = shared.oidc_issuer_url,
        !.storage_account_id =
            IF c.provision_type = "Persistent" THEN shared.storage_account_id ELSE ""]

\* Lines 1929-1944: the identity is copied again when one id is empty.
CopyIdentity(m, shared) ==
    IF m.identity_client_id = "" \/ m.identity_principal_id = ""
    THEN [m EXCEPT !.identity_client_id = shared.identity_client_id,
                   !.identity_principal_id = shared.identity_principal_id,
                   !.oidc_issuer_url = shared.oidc_issuer_url]
    ELSE m

\* The fields CopyIdentity assigns.
CopyIdentityAssigns(m) ==
    IF m.identity_client_id = "" \/ m.identity_principal_id = ""
    THEN IdentityAttributes ELSE {}

\* The fields lines 1863-1875 assign.
CaseManagerAssigns(c) ==
    IdentityAttributes
    \cup (IF c.provision_type = "Persistent" THEN {"storage_account_id"} ELSE {})

GetSubscriptionId ==
    /\ pc = "mgr_init"
    /\ \E rc \in ReturnCodes : Issue("az account show", "az", rc, {})
    /\ CASE ctx = "single" ->
              /\ azure_manager' = AzureManager(config)
              /\ pc' = EntryPc(SingleSteps[1], azure_manager')
              /\ steps' = Invoke(steps, SingleSteps[1], i)
              /\ assignments' = [assignments EXCEPT !.azure_manager = NoAssignments]
              /\ UNCHANGED case_manager
         [] ctx = "shared" ->
              /\ azure_manager' = AzureManager(base_config)
              /\ pc' = EntryPc(SharedSteps(NeedsStorageAccount(use_cases))[1], azure_manager')
              /\ steps' = Invoke(steps, SharedSteps(NeedsStorageAccount(use_cases))[1], i)
              /\ assignments' = [assignments EXCEPT !.azure_manager = NoAssignments]
              /\ UNCHANGED case_manager
         [] ctx = "case" ->
              IF case_config.provision_type = "Persistent"
              THEN /\ case_manager' = CaseManager(case_config, azure_manager)
                   /\ assignments' =
                          [assignments EXCEPT !.case_manager =
                              Assigned(NoAssignments, CaseManagerAssigns(case_config))]
                   /\ pc' = IF case_config.storage_type = "Blob"
                            THEN "c_container" ELSE "c_share"
                   /\ UNCHANGED <<azure_manager, steps>>
              ELSE /\ case_manager' =
                          CopyIdentity(CaseManager(case_config, azure_manager), azure_manager)
                   /\ assignments' =
                          [assignments EXCEPT !.case_manager =
                              Assigned(Assigned(NoAssignments, CaseManagerAssigns(case_config)),
                                       CopyIdentityAssigns(CaseManager(case_config,
                                                                       azure_manager)))]
                   /\ pc' = EntryPc(CaseSteps[1], case_manager')
                   /\ steps' = Invoke(steps, CaseSteps[1], i)
                   /\ UNCHANGED azure_manager
    /\ UNCHANGED <<argVars, flagVars, cfgVars, loopVars, ctx, results, exit_code, localVars,
                   sleeps, temp_files, node_rg_early>>

(***************************************************************************)
(* AzureManager.create_resource_group, lines 299-431.                      *)
(***************************************************************************)
UseCaseTagBySwappedNumbers(s, p) ==
    CASE s = "Blob" /\ p = "Persistent" -> "UseCase1"
      [] s = "Blob" /\ p = "Dynamic" -> "UseCase3"
      [] s = "File" /\ p = "Persistent" -> "UseCase2"
      [] s = "File" /\ p = "Dynamic" -> "UseCase4"
UseCaseTag(s, p) ==
    CASE s = "Blob" /\ p = "Persistent" -> "UseCase1"
      [] s = "Blob" /\ p = "Dynamic" -> "UseCase2"
      [] s = "File" /\ p = "Persistent" -> "UseCase3"
      [] s = "File" /\ p = "Dynamic" -> "UseCase4"

\* The keys of tags: all is all_use_cases, fs and fp are the entries of
\* use_cases_filter (None for a missing key), c is self.config.
Tags(all, fs, fp, c) ==
    (IF all THEN {"UseCase1", "UseCase2", "UseCase3", "UseCase4"}
     ELSE IF fs # None \/ fp # None
     THEN IF fs # None /\ fp # None THEN {UseCaseTag(fs, fp)}
          ELSE IF fp = None THEN {UseCaseTag(fs, "Persistent"), UseCaseTag(fs, "Dynamic")}
          ELSE {UseCaseTag("Blob", fp), UseCaseTag("File", fp)}
     ELSE {UseCaseTag(c.storage_type, c.provision_type)})
    \cup (IF ~Truthy(c.allow_shared_key_access) THEN {"KeyAccess"} ELSE {})

\* Lines 1729-1742 and 2071: the arguments main passes.
ResourceGroupTags ==
    IF ctx = "shared" /\ run_all_cases THEN Tags(TRUE, None, None, Self.config)
    ELSE IF ctx = "shared" /\ run_all_storage_types
    THEN Tags(FALSE, None, provision, Self.config)
    ELSE IF ctx = "shared" /\ run_all_provision_types
    THEN Tags(FALSE, storage, None, Self.config)
    ELSE Tags(FALSE, None, None, Self.config)

CreateResourceGroup ==
    /\ pc = "rg_create"
    /\ \E rc \in ReturnCodes :
          /\ Issue("az group create", "az", rc, ResourceGroupTags)
          /\ IF DisplayCommandResultRaises(rc) THEN Raise("Exit") ELSE Finish(Self)
    /\ UNCHANGED <<argVars, histVars, flagVars, cfgVars, mgrVars, loopVars, localVars>>

(***************************************************************************)
(* AzureManager.create_managed_identity, lines 433-526.                    *)
(***************************************************************************)
CreateIdentity ==
    /\ pc = "id_create"
    /\ \E rc \in ReturnCodes :
          /\ Issue("az identity create", "az", rc, {})
          /\ IF DisplayCommandResultRaises(rc) THEN Raise("Exit") ELSE Goto("id_client")
    /\ UNCHANGED <<argVars, histVars, flagVars, cfgVars, mgrVars, loopVars, localVars>>

ShowIdentityClientId ==
    /\ pc = "id_client"
    /\ \E rc \in ReturnCodes, out \in Stdout("client-id") :
          /\ IssueRead("az identity show clientId", rc, {}, out)
          /\ azure_manager' = [azure_manager EXCEPT !.identity_client_id = out]
          /\ Goto("id_principal")
    /\ assignments' =
           [assignments EXCEPT !.azure_manager = Assigned(@, {"identity_client_id"})]
    /\ UNCHANGED <<argVars, flagVars, cfgVars, case_manager, loopVars, localVars, sleeps,
                   temp_files, node_rg_early>>

ShowIdentityPrincipalId ==
    /\ pc = "id_principal"
    /\ \E rc \in ReturnCodes, out \in Stdout("principal-id") :
          /\ IssueRead("az identity show principalId", rc, {}, out)
          /\ azure_manager' = [azure_manager EXCEPT !.identity_principal_id = out]
          /\ IF azure_manager'.identity_client_id = ""
                \/ azure_manager'.identity_principal_id = ""
             THEN Raise("Exception")
             ELSE Finish(azure_manager')
    /\ assignments' =
           [assignments EXCEPT !.azure_manager = Assigned(@, {"identity_principal_id"})]
    /\ UNCHANGED <<argVars, flagVars, cfgVars, case_manager, loopVars, localVars, sleeps,
                   temp_files, node_rg_early>>

(***************************************************************************)
(* AzureManager.create_storage_account, lines 528-751.                     *)
(***************************************************************************)
\* Line 557: the pre-check found the storage account.
AccountExistsWhateverName(rc, out) == rc = 0
AccountExists(rc, out) == rc = 0 /\ out # ""

\* Line 622: an attempt created the storage account.
CreateSucceeded(rc, out) == rc = 0 /\ out # ""

\* Line 627: time.sleep(5) is called after a failed attempt that left
\* retry_count at n.
SleepsAfterEveryFailure(n) == TRUE
SleepsBeforeRetry(n) == n < max_retries

\* Line 699: the command that creates the container or the share.
ContainerPc(c) == IF c.storage_type = "Blob" THEN "sa_container" ELSE "sa_share"

CheckStorageAccountExists ==
    /\ pc = "sa_check"
    /\ \E rc \in ReturnCodes, out \in Stdout("name") :
          /\ IssueRead("az storage account show (exists)", rc, {}, out)
          /\ IF AccountExists(rc, out) THEN Goto("sa_getid") ELSE Goto("sa_create")
    /\ retry_count' = 0
    /\ UNCHANGED <<argVars, histVars, flagVars, cfgVars, mgrVars, loopVars, manifest,
                   node_resource_group>>

ShowExistingStorageAccountId ==
    /\ pc = "sa_getid"
    /\ \E rc \in ReturnCodes, out \in Stdout("account-id") :
          /\ IssueRead("az storage account show (existing id)", rc, {}, out)
          /\ azure_manager' = [azure_manager EXCEPT !.storage_account_id = out]
          /\ Goto(ContainerPc(azure_manager.config))
    /\ assignments' =
           [assignments EXCEPT !.azure_manager = Assigned(@, {"storage_account_id"})]
    /\ UNCHANGED <<argVars, flagVars, cfgVars, case_manager, loopVars, localVars, sleeps,
                   temp_files, node_rg_early>>

CreateStorageAccount ==
    /\ pc = "sa_create"
    /\ retry_count < max_retries
    /\ \E rc \in ReturnCodes, out \in Stdout("account-id") :
          /\ IssueRead("az storage account create", rc,
                       {IF Truthy(azure_manager.config.allow_shared_key_access)
                        THEN "--allow-shared-key-access true"
                        ELSE "--allow-shared-key-access false"}, out)
          /\ IF CreateSucceeded(rc, out)
             THEN /\ azure_manager' = [azure_manager EXCEPT !.storage_account_id = out]
                  /\ assignments' = [assignments EXCEPT !.azure_manager =
                                        Assigned(@, {"storage_account_id"})]
                  /\ retry_count' = retry_count
                  /\ sleeps' = sleeps
                  /\ Goto("sa_verify")
             ELSE /\ retry_count' = retry_count + 1
                  /\ sleeps' = IF SleepsBeforeRetry(retry_count') THEN sleeps + 1 ELSE sleeps
                  /\ UNCHANGED <<azure_manager, assignments>>
                  /\ IF retry_count' < max_retries
                     THEN Goto("sa_create")
                     ELSE Raise("Exception")
    /\ UNCHANGED <<argVars, flagVars, cfgVars, case_manager, loopVars, manifest,
                   node_resource_group, temp_files, node_rg_early>>

VerifyStorageAccount ==
    /\ pc = "sa_verify"
    /\ \E rc \in ReturnCodes, out \in Stdout("name") :
          /\ IssueRead("az storage account show (verify)", rc, {}, out)
          /\ IF rc # 0 \/ out = ""
             THEN Raise("Exception")
             ELSE Goto(ContainerPc(azure_manager.config))
    /\ retry_count' = 0
    /\ UNCHANGED <<argVars, histVars, flagVars, cfgVars, mgrVars, loopVars, manifest,
                   node_resource_group>>

\* Lines 701-702: the authentication arguments of the container command.
AuthArgsNever(c) == {}
AuthArgs(c) ==
    IF ~Truthy(c.allow_shared_key_access) THEN {"--auth-mode login"} ELSE {}

\* Lines 716-721 and 744-747: a failed container or share command raises.
StorageFailureIgnored(rc) == FALSE
StorageFailureRaises(rc) == rc # 0

CreateBlobContainer ==
    /\ pc = "sa_container"
    /\ \E rc \in ReturnCodes :
          /\ Issue("az storage container create", "az", rc, AuthArgs(azure_manager.config))
          /\ IF StorageFailureRaises(rc) THEN Raise("Exception") ELSE Finish(azure_manager)
    /\ UNCHANGED <<argVars, histVars, flagVars, cfgVars, mgrVars, loopVars, localVars>>

CreateFileShare ==
    /\ pc = "sa_share"
    /\ \E rc \in ReturnCodes :
          /\ Issue("az storage share create", "az", rc, {})
          /\ IF StorageFailureRaises(rc) THEN Raise("Exception") ELSE Finish(azure_manager)
    /\ UNCHANGED <<argVars, histVars, flagVars, cfgVars, mgrVars, loopVars, localVars>>

(***************************************************************************)
(* AzureManager.assign_roles, lines 753-892.                               *)
(***************************************************************************)
\* Lines 793-798.
DataRole(c) ==
    IF c.storage_type = "Blob" THEN "Storage Blob Data Contributor"
    ELSE "Storage File Data SMB Share Contributor"

AssignKeyOperatorRole ==
    /\ pc = "ar_keyop"
    /\ \E rc \in ReturnCodes :
          /\ IssueRole("az role assignment create (key operator)", rc,
                       "Storage Account Key Operator Service Role",
                       Self.identity_principal_id, Self.storage_account_id)
          /\ IF DisplayCommandResultRaises(rc) THEN Raise("Exit") ELSE Goto("ar_data")
    /\ UNCHANGED <<argVars, histVars, flagVars, cfgVars, mgrVars, loopVars, localVars>>

AssignDataRole ==
    /\ pc = "ar_data"
    /\ \E rc \in ReturnCodes :
          /\ IssueRole("az role assignment create (data)", rc, DataRole(Self.config),
                       Self.identity_principal_id, Self.storage_account_id)
          /\ IF DisplayCommandResultRaises(rc) THEN Raise("Exit") ELSE Goto("ar_noderg")
    /\ UNCHANGED <<argVars, histVars, flagVars, cfgVars, mgrVars, loopVars, localVars>>

ShowNodeResourceGroup ==
    /\ pc = "ar_noderg"
    /\ \E rc \in ReturnCodes, out \in Stdout("node-rg") :
          /\ IssueRead("az aks show nodeResourceGroup", rc, {}, out)
          /\ node_resource_group' = out
          /\ node_rg_early' = (node_rg_early
                                 \/ (out # "" /\ "az aks create" \notin issued))
          /\ Goto("ar_nodergid")
    /\ UNCHANGED <<argVars, flagVars, cfgVars, mgrVars, loopVars, retry_count, manifest,
                   sleeps, temp_files, assignments>>

ShowNodeResourceGroupId ==
    /\ pc = "ar_nodergid"
    /\ \E rc \in ReturnCodes, out \in Stdout("node-rg-id") :
          /\ IssueRead("az group show id", rc, {}, out)
          /\ IF out # ""
             THEN /\ Goto("ar_reader")
                  /\ UNCHANGED node_resource_group
             ELSE /\ Finish(Self)
                  /\ node_resource_group' = ""
    /\ UNCHANGED <<argVars, histVars, flagVars, cfgVars, mgrVars, loopVars, retry_count,
                   manifest>>

AssignReaderRole ==
    /\ pc = "ar_reader"
    /\ \E rc \in ReturnCodes :
          /\ IssueRole("az role assignment create (reader)", rc, "Reader",
                       Self.identity_principal_id, "node-rg-id")
          /\ IF DisplayCommandResultRaises(rc) THEN Raise("Exit") ELSE Finish(Self)
    /\ node_resource_group' = ""
    /\ UNCHANGED <<argVars, histVars, flagVars, cfgVars, mgrVars, loopVars, retry_count,
                   manifest>>

(***************************************************************************)
(* AzureManager.create_aks_cluster, lines 894-1008.                        *)
(***************************************************************************)
\* Lines 917-919.
BlobDriverArgs(c) == IF c.storage_type = "Blob" THEN {"--enable-blob-driver"} ELSE {}

CreateAksCluster ==
    /\ pc = "aks_create"
    /\ \E rc \in ReturnCodes :
          /\ Issue("az aks create", "az", rc, BlobDriverArgs(azure_manager.config))
          /\ IF DisplayCommandResultRaises(rc) THEN Raise("Exit") ELSE Goto("aks_creds")
    /\ UNCHANGED <<argVars, histVars, flagVars, cfgVars, mgrVars, loopVars, localVars>>

GetAksCredentials ==
    /\ pc = "aks_creds"
    /\ \E rc \in ReturnCodes :
          /\ Issue("az aks get-credentials", "az", rc, {})
          /\ IF DisplayCommandResultRaises(rc) THEN Raise("Exit") ELSE Goto("aks_oidc")
    /\ UNCHANGED <<argVars, histVars, flagVars, cfgVars, mgrVars, loopVars, localVars>>

ShowOidcIssuer ==
    /\ pc = "aks_oidc"
    /\ \E rc \in ReturnCodes, out \in Stdout("issuer-url") :
          /\ IssueRead("az aks show issuerUrl", rc, {}, out)
          /\ azure_manager' = [azure_manager EXCEPT !.oidc_issuer_url = out]
          /\ Finish(azure_manager')
    /\ assignments' =
           [assignments EXCEPT !.azure_manager = Assigned(@, {"oidc_issuer_url"})]
    /\ UNCHANGED <<argVars, flagVars, cfgVars, case_manager, loopVars, localVars, sleeps,
                   temp_files, node_rg_early>>

(***************************************************************************)
(* AzureManager.configure_workload_identity, lines 1010-1090.              *)
(***************************************************************************)
ApplyServiceAccount ==
    /\ pc = "wi_apply"
    /\ \E rc \in ReturnCodes :
          /\ Issue("kubectl apply", "kubectl", rc, {"ServiceAccount"})
          /\ temp_files' = temp_files \cup {TempFile("ServiceAccount", rc)}
          /\ IF rc # 0 THEN Raise("Exit") ELSE Goto("wi_fedcred")
    /\ UNCHANGED <<argVars, flagVars, cfgVars, mgrVars, loopVars, localVars, sleeps,
                   assignments, node_rg_early>>

CreateFederatedCredential ==
    /\ pc = "wi_fedcred"
    /\ \E rc \in ReturnCodes :
          /\ Issue("az identity federated-credential create", "az", rc, {})
          /\ Finish(Self)
    /\ UNCHANGED <<argVars, histVars, flagVars, cfgVars, mgrVars, loopVars, localVars>>

(***************************************************************************)
(* AzureManager.configure_static_storage, lines 1092-1342, and             *)
(* AzureManager.configure_dynamic_storage, lines 1344-1527.                *)
(***************************************************************************)
\* Lines 1253-1257 and 1435-1438: the manifests, in the order of the loop.
StaticManifestsClaimFirst == << "Persistent Volume Claim", "Persistent Volume", "Test Job" >>
StaticManifests == << "Persistent Volume", "Persistent Volume Claim", "Test Job" >>
DynamicManifests == << "Persistent Volume Claim", "Test Job" >>

\* Lines 1307-1309 and 1488-1490.
StorageTypeName(c) == IF c.storage_type = "Blob" THEN "blob" ELSE "file"

\* Lines 1095-1249: metadata.name of each manifest of
\* configure_static_storage, and the claimName of the job, for config c.
StaticYaml(c) ==
    IF c.storage_type = "Blob"
    THEN [name |-> [d \in {"Persistent Volume", "Persistent Volume Claim", "Test Job"} |->
                      CASE d = "Persistent Volume" -> <<"blob", "persistent", "pv">>
                        [] d = "Persistent Volume Claim" -> <<"blob", "persistent", "pvc">>
                        [] d = "Test Job" -> <<"static", "blob", "creator">>],
          claimName |-> <<"blob", "persistent", "pvc">>]
    ELSE [name |-> [d \in {"Persistent Volume", "Persistent Volume Claim", "Test Job"} |->
                      CASE d = "Persistent Volume" -> <<"file", "persistent", "pv">>
                        [] d = "Persistent Volume Claim" -> <<"file", "persistent", "pvc">>
                        [] d = "Test Job" -> <<"static", "file", "creator">>],
          claimName |-> <<"file", "persistent", "pvc">>]

\* Lines 1347-1432: the same for configure_dynamic_storage.
DynamicYaml(c) ==
    IF c.storage_type = "Blob"
    THEN [name |-> [d \in {"Persistent Volume Claim", "Test Job"} |->
                      CASE d = "Persistent Volume Claim" -> <<"blob", "dynamic", "pvc">>
                        [] d = "Test Job" -> <<"dynamic", "blob", "creator">>],
          claimName |-> <<"blob", "dynamic", "pvc">>]
    ELSE [name |-> [d \in {"Persistent Volume Claim", "Test Job"} |->
                      CASE d = "Persistent Volume Claim" -> <<"file", "dynamic", "pvc">>
                        [] d = "Test Job" -> <<"dynamic", "file", "creator">>],
          claimName |-> <<"file", "dynamic", "pvc">>]

\* Line 1310: job_name = f"static-{storage_type_name}-creator".
StaticJobNameAlwaysBlob(c) == <<"static", "blob", "creator">>
StaticJobName(c) == <<"static", StorageTypeName(c), "creator">>

\* Lines 1491-1495.
DynamicJobName(c) ==
    IF c.storage_type = "Blob" THEN <<"dynamic", StorageTypeName(c), "creator">>
    ELSE <<"dynamic", "file", "creator">>

\* One turn of the loop over manifests.
ApplyManifest(manifests, yaml, wait_pc) ==
    \E rc \in ReturnCodes :
       /\ IssueKubectl("kubectl apply", rc, {manifests[manifest + 1]},
                       yaml.name[manifests[manifest + 1]],
                       IF manifests[manifest + 1] = "Test Job" THEN yaml.claimName
                       ELSE << >>)
       /\ temp_files' = IF rc # 0
                        THEN temp_files \cup {TempFile(manifests[manifest + 1], rc)}
                        ELSE temp_files
       /\ IF rc # 0
          THEN /\ Raise("Exit")
               /\ manifest' = 0
          ELSE IF manifest + 1 < Len(manifests)
          THEN /\ Goto(pc)
               /\ manifest' = manifest + 1
          ELSE /\ Goto(wait_pc)
               /\ manifest' = 0

ApplyStaticManifest ==
    /\ pc = "st_apply"
    /\ ApplyManifest(StaticManifests, StaticYaml(Self.config), "st_wait")
    /\ UNCHANGED <<argVars, flagVars, cfgVars, mgrVars, loopVars, retry_count,
                   node_resource_group, sleeps, assignments, node_rg_early>>

\* Lines 1313-1327 and 1498-1512: a job that did not complete makes the
\* step return.
WaitForJobOrExit(job_name, timeout, logs_pc) ==
    \E rc \in ReturnCodes :
       /\ IssueKubectl("kubectl wait", rc, {timeout}, job_name, << >>)
       /\ IF rc # 0 THEN Raise("Exit") ELSE Goto(logs_pc)
WaitForJob(job_name, timeout, logs_pc) ==
    \E rc \in ReturnCodes :
       /\ IssueKubectl("kubectl wait", rc, {timeout}, job_name, << >>)
       /\ IF rc # 0 THEN Finish(Self) ELSE Goto(logs_pc)

WaitStaticJob ==
    /\ pc = "st_wait"
    /\ WaitForJob(StaticJobName(Self.config), "--timeout=60s", "st_logs")
    /\ UNCHANGED <<argVars, histVars, flagVars, cfgVars, mgrVars, loopVars, localVars>>

StaticJobLogs ==
    /\ pc = "st_logs"
    /\ \E rc \in ReturnCodes :
          /\ IssueKubectl("kubectl logs", rc, {}, StaticJobName(Self.config), << >>)
          /\ Finish(Self)
    /\ UNCHANGED <<argVars, histVars, flagVars, cfgVars, mgrVars, loopVars, localVars>>

ApplyDynamicManifest ==
    /\ pc = "dy_apply"
    /\ ApplyManifest(DynamicManifests, DynamicYaml(Self.config), "dy_wait")
    /\ UNCHANGED <<argVars, flagVars, cfgVars, mgrVars, loopVars, retry_count,
                   node_resource_group, sleeps, assignments, node_rg_early>>

WaitDynamicJob ==
    /\ pc = "dy_wait"
    /\ WaitForJob(DynamicJobName(Self.config), "--timeout=120s", "dy_logs")
    /\ UNCHANGED <<argVars, histVars, flagVars, cfgVars, mgrVars, loopVars, localVars>>

DynamicJobLogs ==
    /\ pc = "dy_logs"
    /\ \E rc \in ReturnCodes :
          /\ IssueKubectl("kubectl logs", rc, {}, DynamicJobName(Self.config), << >>)
          /\ Finish(Self)
    /\ UNCHANGED <<argVars, histVars, flagVars, cfgVars, mgrVars, loopVars, localVars>>

(***************************************************************************)
(* main, multi-case mode: lines 1760-1800, the check of the shared storage *)
(* account, and lines 1810-1984, the loop over the use cases.              *)
(***************************************************************************)
VerifySharedStorageAccount ==
    /\ pc = "m_verify"
    /\ \E rc \in ReturnCodes, out \in Stdout("name") :
          /\ IssueRead("az storage account show (shared verify)", rc, {}, out)
          /\ IF out = "" THEN Raise("Exception") ELSE Goto("m_getid")
    /\ UNCHANGED <<argVars, histVars, flagVars, cfgVars, mgrVars, loopVars, localVars>>

ShowSharedStorageAccountId ==
    /\ pc = "m_getid"
    /\ \E rc \in ReturnCodes, out \in Stdout("account-id") :
          /\ IssueRead("az storage account show (shared id)", rc, {}, out)
          /\ azure_manager' = [azure_manager EXCEPT !.storage_account_id = out]
          /\ Goto("loop")
    /\ assignments' =
           [assignments EXCEPT !.azure_manager = Assigned(@, {"storage_account_id"})]
    /\ UNCHANGED <<argVars, flagVars, cfgVars, case_manager, loopVars, localVars, sleeps,
                   temp_files, node_rg_early>>

\* Lines 1833-1854: the configuration of one use case.
CaseConfigWithNewId(c, base, allow) ==
    Config(ConfigArgs(group, c.storage, c.provision, << >>, << >>, << >>, BoolArg(allow)),
           <<"n", "e", "w", "0", "0", "0">>)
CaseConfig(c, base, allow) ==
    Config(ConfigArgs(group, c.storage, c.provision, base.unique_id, base.resource_group,
                      IF c.provision = "Persistent" THEN base.storage_account ELSE << >>,
                      BoolArg(allow)),
           base.unique_id)

\* The head of the loop of line 1814: the next use case starts, or the
\* results table is printed and main returns.
NextUseCase ==
    /\ pc = "loop"
    /\ IF i < Len(use_cases)
       THEN /\ i' = i + 1
            /\ keyless_support' = KeylessSupport(use_cases[i'].storage,
                                                 use_cases[i'].provision,
                                                 allow_shared_key_access)
            /\ case_config' = CaseConfig(use_cases[i'], base_config, allow_shared_key_access)
            /\ case_storage_failed' = FALSE
            /\ pc' = "mgr_init"
            /\ ctx' = "case"
            /\ UNCHANGED exit_code
       ELSE /\ pc' = "done"
            /\ exit_code' = MainReturnCode(results)
            /\ UNCHANGED <<i, keyless_support, case_storage_failed, case_config, ctx>>
    /\ UNCHANGED <<argVars, histVars, flagVars, config, base_config, mgrVars, steps, results,
                   localVars, cmdVars>>

\* Lines 1877-1947: the container or share of a Persistent case; the exit
\* code of the command only decides whether a message is printed.
CaseContainerOrShare(kind) ==
    /\ \E rc \in ReturnCodes :
          /\ Issue(kind, "az", rc, {})
          /\ case_storage_failed' = (rc # 0)
    /\ case_manager' = CopyIdentity(case_manager, azure_manager)
    /\ assignments' =
           [assignments EXCEPT !.case_manager = Assigned(@, CopyIdentityAssigns(case_manager))]
    /\ pc' = EntryPc(CaseSteps[1], case_manager')
    /\ steps' = Invoke(steps, CaseSteps[1], i)
    /\ UNCHANGED <<argVars, flagVars, cfgVars, azure_manager, i, keyless_support, ctx,
                   results, exit_code, localVars, sleeps, temp_files, node_rg_early>>

CreateCaseBlobContainer ==
    /\ pc = "c_container"
    /\ CaseContainerOrShare("az storage container create (case)")

CreateCaseFileShare ==
    /\ pc = "c_share"
    /\ CaseContainerOrShare("az storage share create (case)")

(***************************************************************************)
(* The specification of a run.                                             *)
(***************************************************************************)
Next ==
    \/ ValidateFlags
    \/ SelectMode
    \/ GetSubscriptionId
    \/ CreateResourceGroup
    \/ CreateIdentity
    \/ ShowIdentityClientId
    \/ ShowIdentityPrincipalId
    \/ CheckStorageAccountExists
    \/ ShowExistingStorageAccountId
    \/ CreateStorageAccount
    \/ VerifyStorageAccount
    \/ CreateBlobContainer
    \/ CreateFileShare
    \/ AssignKeyOperatorRole
    \/ AssignDataRole
    \/ ShowNodeResourceGroup
    \/ ShowNodeResourceGroupId
    \/ AssignReaderRole
    \/ CreateAksCluster
    \/ GetAksCredentials
    \/ ShowOidcIssuer
    \/ ApplyServiceAccount
    \/ CreateFederatedCredential
    \/ ApplyStaticManifest
    \/ WaitStaticJob
    \/ StaticJobLogs
    \/ ApplyDynamicManifest
    \/ WaitDynamicJob
    \/ DynamicJobLogs
    \/ VerifySharedStorageAccount
    \/ ShowSharedStorageAccountId
    \/ NextUseCase
    \/ CreateCaseBlobContainer
    \/ CreateCaseFileShare

Spec == Init /\ [][Next]_vars

(***************************************************************************)
(* The specification of the configuration record alone: Config is built    *)
(* for group strings of every length up to MaxGroupLen, either directly,   *)
(* with allow_shared_key_access given or omitted, or as main builds config *)
(* or base_config (no derived name given) and then case_config from it.    *)
(***************************************************************************)
\* The first n characters of p repeated.
Cyclic(p, n) == [j \in 1..n |-> p[((j - 1) % Len(p)) + 1]]
GroupPatterns == {DefaultGroup, <<"P", "o", "c", "_", "1">>, <<"p", "o", "c">>}
ConfigGroups == {Cyclic(p, n) : p \in GroupPatterns, n \in 0..MaxGroupLen}

InitConfig ==
    /\ group \in ConfigGroups
    /\ in_storage \in StorageType
    /\ in_provision \in ProvisionType
    /\ disable_shared_key \in BOOLEAN
    /\ in_allow \in {None, "True", "False"}
    /\ pc = "cfg_new"
    /\ InitRun

\* Lines 214-259: Config constructed from a group, a storage type and a
\* provision type, with allow_shared_key_access given or omitted.
ConstructConfig ==
    /\ pc = "cfg_new"
    /\ \E rnd \in UniqueIds :
          config' = Config(ConfigArgs(group, in_storage, in_provision, << >>, << >>, << >>,
                                      in_allow), rnd)
    /\ pc' = "cfg_direct"
    /\ UNCHANGED <<argVars, histVars, flagVars, base_config, case_config, mgrVars, loopVars,
                   ctx, steps, results, exit_code, localVars, cmdVars>>

\* Lines 1575-1576, 1708-1713 and 2048-2053.
BuildConfig ==
    /\ pc = "cfg_new"
    /\ \E rnd \in UniqueIds :
          base_config' =
              Config(ConfigArgs(group, in_storage, in_provision, << >>, << >>, << >>,
                                BoolArg(AllowSharedKeyAccess(disable_shared_key))), rnd)
    /\ pc' = "cfg_base"
    /\ UNCHANGED <<argVars, histVars, flagVars, config, case_config, mgrVars, loopVars, ctx,
                   steps, results, exit_code, localVars, cmdVars>>

\* Lines 1833-1854.
BuildCaseConfig ==
    /\ pc = "cfg_base"
    /\ \E n \in 1..Len(all_use_cases) :
          case_config' = CaseConfig(all_use_cases[n], base_config,
                                    AllowSharedKeyAccess(disable_shared_key))
    /\ pc' = "cfg_case"
    /\ UNCHANGED <<argVars, histVars, flagVars, config, base_config, mgrVars, loopVars, ctx,
                   steps, results, exit_code, localVars, cmdVars>>

NextConfig == ConstructConfig \/ BuildConfig \/ BuildCaseConfig

SpecConfig == InitConfig /\ [][NextConfig]_vars

(***************************************************************************)
(* Properties.                                                             *)
(***************************************************************************)
\* The run is in multi-case mode and its loop over the use cases started.
InLoop == ctx = "case"
\* The process ended.
Ended == pc = "done"
\* The positions of log that hold step name for use case n.
StepIndexes(name, n) ==
    {a \in 1..Len(steps) : steps[a].name = name /\ steps[a].case = n}
\* Step name completed before position a of the log.
DoneBefore(a, name) ==
    \E b \in 1..(a - 1) : steps[b].name = name /\ steps[b].done

\* C1: when --disable-shared-key is given with --storage File or with
\* --provision Dynamic, the process ends with exit code 1 and no external
\* command, the subscription lookup included, is ever issued.
C1_ConflictingFlagsExitBeforeAnyCommand ==
    (disable_shared_key /\ (in_storage = "File" \/ in_provision = "Dynamic"))
        => /\ issued = {}
           /\ last = NoCommand
           /\ azure_manager = NoManager
           /\ pc \in {"start", "done"}
           /\ Ended => exit_code = 1
C1_Witness ==
    /\ disable_shared_key
    /\ in_storage = None
    /\ in_provision = "Dynamic"
    /\ Ended
    /\ exit_code = 1
    /\ issued = {}

\* C2: in multi-case mode, after the shared setup, every selected use case
\* is attempted exactly once, in list order, whatever error an earlier case
\* raised; the results table has one row per attempted case, in list order,
\* a row is marked successful exactly when the storage configuration of
\* its case returned, and when the process ends the table has one row for
\* every selected case.
C2_CaseFailureDoesNotStopLaterCases ==
    InLoop =>
        /\ Len(results) = (IF pc \in {"loop", "done"} THEN i ELSE i - 1)
        /\ \A n \in 1..Len(results) :
              /\ results[n].case = use_cases[n].name
              /\ results[n].success
                    <=> \E a \in StepIndexes("configure_storage", n) : steps[a].done
              /\ Cardinality(StepIndexes("assign_roles", n)) = 1
              /\ Cardinality(StepIndexes("configure_storage", n)) <= 1
        /\ \A a, b \in 1..Len(steps) : a < b => steps[a].case <= steps[b].case
        /\ Ended => Len(results) = Len(use_cases)
C2_Witness ==
    /\ InLoop
    /\ Ended
    /\ Len(results) = 4
    /\ ~results[1].success
    /\ results[2].success
    /\ ~results[3].success
    /\ results[4].success
    /\ StepIndexes("configure_storage", 1) # {}
    /\ StepIndexes("configure_storage", 3) = {}

\* The use cases a run executes: the one of single-case mode, or the list
\* of multi-case mode.
CasesRun ==
    IF ctx = "single" THEN {<<config.storage_type, config.provision_type>>}
    ELSE {<<use_cases[n].storage, use_cases[n].provision>> : n \in 1..Len(use_cases)}
\* The cross product restricted to the values given on the command line.
CasesPinned ==
    {c \in StorageType \X ProvisionType :
        /\ in_storage = None \/ c[1] = in_storage
        /\ in_provision = None \/ c[2] = in_provision}

\* C3: with shared-key access not disabled, the use cases run are exactly
\* {Blob, File} x {Persistent, Dynamic} restricted to the values given:
\* four cases when neither option is given, two when one is, the single
\* pinned case when both are; no case is listed twice, and when the
\* process ends after the loop the table holds exactly these cases.
C3_CasesAreThePinnedCrossProduct ==
    (~disable_shared_key /\ ctx # "none") =>
        /\ CasesRun = CasesPinned
        /\ ctx # "single" => Len(use_cases) = Cardinality(CasesPinned)
        /\ Cardinality(CasesPinned) =
              (IF in_storage = None /\ in_provision = None THEN 4
               ELSE IF in_storage = None \/ in_provision = None THEN 2 ELSE 1)
        /\ (ctx = "single") <=> (in_storage # None /\ in_provision # None)
        /\ (InLoop /\ Ended) =>
              {results[n].case : n \in 1..Len(results)} =
              {use_cases[n].name : n \in 1..Len(use_cases)}
C3_Witness ==
    /\ ~disable_shared_key
    /\ in_storage = None
    /\ in_provision = "Dynamic"
    /\ Ended
    /\ Len(results) = 2
    /\ results[1].case = "Blob-Dynamic"
    /\ results[2].case = "File-Dynamic"

\* C4: the reported keyless support of a use case, in single-case mode and
\* in every row of the results table, is true exactly when the case is
\* Blob with Persistent provisioning and shared-key access is disabled.
C4_KeylessIffBlobPersistentAndKeysDisabled ==
    /\ ctx = "single" =>
          (keyless_support <=>
              /\ config.storage_type = "Blob"
              /\ config.provision_type = "Persistent"
              /\ disable_shared_key
              /\ ~Truthy(config.allow_shared_key_access))
    /\ \A n \in 1..Len(results) :
          results[n].keyless <=>
              /\ use_cases[n].storage = "Blob"
              /\ use_cases[n].provision = "Persistent"
              /\ disable_shared_key
C4_Witness ==
    /\ ctx = "single"
    /\ Ended
    /\ exit_code = 0
    /\ keyless_support
    /\ disable_shared_key

\* C5: a run with shared-key access disabled never enters multi-case mode;
\* given with no --storage and no --provision, --disable-shared-key runs
\* exactly one use case, (Blob, Persistent), in single-case mode.
C5_KeylessRunsOneBlobPersistentCase ==
    disable_shared_key =>
        /\ ctx \in {"none", "single"}
        /\ use_cases = << >>
        /\ results = << >>
        /\ ctx = "single" => CasesRun = {<<"Blob", "Persistent">>}
        /\ (in_storage = None /\ in_provision = None /\ pc \notin {"start", "select"})
              => ctx = "single"
C5_Witness ==
    /\ disable_shared_key
    /\ in_storage = None
    /\ in_provision = None
    /\ ctx = "single"
    /\ Ended
    /\ exit_code = 0
    /\ \E a \in 1..Len(steps) : steps[a].name = "configure_storage" /\ steps[a].done

\* The configuration records built so far.
Built == {c \in {config, base_config, case_config} : c # NoConfig}

\* C6: every configuration record built from the group and an identifier
\* has the resource group <group>-<id>-rg, the identity <group>-<id>-identity
\* and the cluster <group>-<id>-aks, and a storage-account name of at most
\* 24 characters without a hyphen; two records built from the same group
\* and identifier, for any two (storage, provision) pairs, have the same
\* four names.
C6_DerivedNamesDeterministicAndBounded ==
    /\ \A c \in Built :
          /\ c.resource_group = c.group \o <<"-">> \o c.unique_id \o <<"-", "r", "g">>
          /\ c.identity_name = c.group \o <<"-">> \o c.unique_id
                                  \o <<"-", "i", "d", "e", "n", "t", "i", "t", "y">>
          /\ c.cluster_name = c.group \o <<"-">> \o c.unique_id \o <<"-", "a", "k", "s">>
          /\ Len(c.storage_account) <= 24
          /\ \A j \in 1..Len(c.storage_account) : c.storage_account[j] # "-"
    /\ \A c, d \in Built :
          (c.group = d.group /\ c.unique_id = d.unique_id) =>
              /\ c.resource_group = d.resource_group
              /\ c.storage_account = d.storage_account
              /\ c.identity_name = d.identity_name
              /\ c.cluster_name = d.cluster_name
C6_Witness ==
    /\ pc = "cfg_case"
    /\ Len(group) = MaxGroupLen
    /\ \E j \in 1..Len(group) : group[j] = "-"
    /\ case_config.provision_type = "Dynamic"
    /\ case_config.storage_type # base_config.storage_type
    /\ Len(base_config.storage_account) = 24
    /\ case_config.storage_account = base_config.storage_account

\* C7: for every group string, the derived storage-account name consists
\* of 1 to 24 lowercase letters and digits and contains the unique
\* identifier of the run.
C7_StorageAccountLowerAlnumWithId ==
    \A c \in Built :
        /\ Len(c.storage_account) \in 1..24
        /\ \A j \in 1..Len(c.storage_account) : c.storage_account[j] \in LowerAlnum
        /\ Contains(c.storage_account, c.unique_id)

\* The order of the provisioning steps as the claim C8 states it.
ClaimedOrder ==
    << "create_resource_group", "create_managed_identity", "create_storage_account",
       "assign_roles", "create_aks_cluster", "configure_workload_identity",
       "configure_storage" >>
\* The order of the shared steps of multi-case mode.
SharedOrder ==
    << "create_resource_group", "create_managed_identity", "create_aks_cluster",
       "configure_workload_identity", "create_storage_account" >>
Position(order, name) == CHOOSE r \in 1..Len(order) : order[r] = name
\* Every step before the step at position a of the log, in order, completed
\* before it was invoked.
InOrder(order, a) ==
    \A r \in 1..(Position(order, steps[a].name) - 1) : DoneBefore(a, order[r])

\* C8 as stated: in every run each step is invoked only after every step
\* before it in the order resource group, identity, storage account, roles,
\* cluster, workload identity, storage configuration has completed.
C8_Original_OneOrderInEveryRun ==
    \A a \in 1..Len(steps) : InOrder(ClaimedOrder, a)

\* C8 amended: that order is the order of single-case mode.  In multi-case
\* mode the shared steps run in the order resource group, identity, cluster,
\* workload identity, storage account (the last only when a Persistent case
\* is selected), and then, for each use case, roles and storage
\* configuration, each invoked only after the steps before it completed.
C8_StepOrderPerMode ==
    /\ ctx = "single" => \A a \in 1..Len(steps) : InOrder(ClaimedOrder, a)
    /\ ctx \in {"shared", "case"} =>
          \A a \in 1..Len(steps) :
             IF steps[a].case = 0
             THEN /\ steps[a].name \in {SharedOrder[r] : r \in 1..Len(SharedOrder)}
                  /\ InOrder(SharedOrder, a)
                  /\ steps[a].name = "create_storage_account"
                        => NeedsStorageAccount(use_cases)
             ELSE /\ steps[a].name \in {"assign_roles", "configure_storage"}
                  /\ \A r \in 1..4 : DoneBefore(a, SharedOrder[r])
                  /\ NeedsStorageAccount(use_cases)
                        => DoneBefore(a, "create_storage_account")
                  /\ steps[a].name = "configure_storage" =>
                        \E b \in 1..(a - 1) :
                           /\ steps[b].name = "assign_roles"
                           /\ steps[b].case = steps[a].case
                           /\ steps[b].done
C8_Witness ==
    /\ InLoop
    /\ Ended
    /\ Len(use_cases) = 4
    /\ Len(steps) = 13
    /\ steps[3].name = "create_aks_cluster"
    /\ steps[5].name = "create_storage_account"
    /\ steps[13].name = "configure_storage"
    /\ steps[13].done

\* The commands whose failure the code turns into an error: the commands
\* given to display_command_result, kubectl apply, the container and share
\* commands of create_storage_account and the verification of a created
\* storage account.
CheckedKinds ==
    { "az group create", "az identity create",
      "az role assignment create (key operator)", "az role assignment create (data)",
      "az role assignment create (reader)", "az aks create", "az aks get-credentials",
      "kubectl apply", "az storage container create", "az storage share create",
      "az storage account show (verify)" }
\* The last command is a storage-account creation attempt that has a retry
\* left.
RetryLeft == last.kind = "az storage account create" /\ retry_count < max_retries
\* The run was aborted: the process ended with exit code 1, and nothing
\* more can happen.
Aborted == Ended /\ exit_code = 1 /\ ~ENABLED Next

\* C9 as stated: in single-case mode a non-zero exit of any command of a
\* provisioning step, except a storage-account creation attempt with a
\* retry left, aborts the run.
C9_Original_AnyFailedCommandAborts ==
    (ctx = "single" /\ steps # << >> /\ last.rc # 0 /\ last.kind # "az account show"
         /\ ~RetryLeft)
        => Aborted

\* C9 amended: in single-case mode a non-zero exit of a command whose exit
\* code the code checks (resource-group, identity, cluster and role
\* assignment creation, get-credentials, every kubectl apply, container or
\* share creation, the verification of a created storage account, and the
\* third storage-account creation attempt) aborts the run: the process
\* ends with exit code 1 and no further command is issued.
C9_CheckedFailureAbortsSingleRun ==
    (/\ ctx = "single"
     /\ last.rc # 0
     /\ \/ last.kind \in CheckedKinds
        \/ last.kind = "az storage account create" /\ ~RetryLeft)
        => Aborted
C9_Witness ==
    /\ ctx = "single"
    /\ last.kind = "az aks create"
    /\ last.rc = 1
    /\ Aborted
    /\ steps[Len(steps)].name = "create_aks_cluster"
    /\ ~steps[Len(steps)].done

\* C10: in multi-case mode, once the shared setup succeeded the process
\* ends with exit code 0 however many use cases failed; exit code 1 comes
\* only from a failure of the shared setup.
C10_MultiCaseExitCode ==
    (ctx \in {"shared", "case"} /\ Ended) =>
        /\ InLoop => (exit_code = 0 /\ Len(results) = Len(use_cases))
        /\ exit_code = 1 => (ctx = "shared" /\ results = << >> /\ i = 0)
        /\ exit_code \in {0, 1}
C10_Witness ==
    /\ InLoop
    /\ Ended
    /\ exit_code = 0
    /\ Len(results) = 4
    /\ \A n \in 1..4 : ~results[n].success

\* C11: whenever a kubectl apply of a manifest returns non-zero, in
\* single-case mode and inside a use case of multi-case mode alike, the
\* process ends with exit code 1 and no further command is issued.
C11_ApplyFailureTerminatesProcess ==
    (last.kind = "kubectl apply" /\ last.rc # 0) => Aborted

\* time.sleep(5) is called only between two attempts to create the storage
\* account: every failed attempt but the third is followed by one call.
CreateKind == "az storage account create"
RetryDiscipline ==
    /\ count[CreateKind] <= 3
    /\ sleeps <= 2
    /\ pc = "sa_create" => (count[CreateKind] < 3 /\ sleeps = count[CreateKind])
    /\ (pc # "sa_create" /\ count[CreateKind] > 0) => sleeps = count[CreateKind] - 1
    /\ last.kind = CreateKind =>
          IF last.rc = 0 /\ last.out # ""
          THEN pc = "sa_verify" /\ azure_manager.storage_account_id = last.out
          ELSE IF count[CreateKind] < 3 THEN pc = "sa_create"
          ELSE Aborted
\* The step about to be taken issues an external command.
IssuesCommand == pc \notin {"start", "select", "loop", "done"}
\* A failed command other than the creation of the storage account is not
\* followed by the same command.
NoOtherRetry ==
    (IssuesCommand /\ last.rc # 0 /\ last.kind # CreateKind) => last'.kind # last.kind

\* C12: one call of create_storage_account issues the create command at
\* most three times; it stops at the first attempt that returns exit code 0
\* and a non-empty id, sleeps only between two attempts (never after the
\* third), and raises an error, which ends the run, after the third failed
\* attempt; no other command is issued again after it failed.
C12_CreateRetriedAtMostThreeTimes ==
    []RetryDiscipline /\ [][NoOtherRetry]_vars
C12_Witness ==
    /\ last.kind = CreateKind
    /\ last.rc = 1
    /\ count[CreateKind] = 3
    /\ sleeps = 2
    /\ Aborted

\* The group of the example run.
Poc == <<"p", "o", "c">>
\* The configuration main built for group "poc", Blob, Persistent, without
\* --disable-shared-key.
PocRun ==
    /\ base_config # NoConfig
    /\ group = Poc
    /\ in_storage = "Blob"
    /\ in_provision = "Persistent"
    /\ ~disable_shared_key
\* The names of that configuration: resource group poc-<id>-rg and a
\* storage account of 1 to 24 lowercase letters and digits.
PocNames ==
    /\ base_config.resource_group = Poc \o <<"-">> \o base_config.unique_id \o <<"-", "r", "g">>
    /\ Len(base_config.storage_account) \in 1..24
    /\ \A j \in 1..Len(base_config.storage_account) :
          base_config.storage_account[j] \in LowerAlnum

\* C13 as stated: a run with group "poc", storage Blob, provision
\* Persistent and shared keys not disabled uses a configuration with
\* resource group poc-<id>-rg, a storage account matching ^[a-z0-9]{1,24}$
\* and allow_shared_key_access False.
C13_Original_PocRunDisallowsSharedKey ==
    PocRun => (PocNames /\ base_config.allow_shared_key_access = "False")

\* C13 amended: that run uses a configuration with resource group
\* poc-<id>-rg, a storage account matching ^[a-z0-9]{1,24}$ and
\* allow_shared_key_access True: main always gives Config the value
\* not disable_shared_key, so the default of Config is not used.
C13_PocRunAllowsSharedKey ==
    PocRun => (PocNames /\ base_config.allow_shared_key_access = "True")
C13_Witness ==
    /\ PocRun
    /\ pc = "cfg_base"
    /\ base_config.storage_account =
          <<"p", "o", "c", "a", "b", "c", "1", "2", "3", "s", "a">>
    /\ base_config.allow_shared_key_access = "True"

\* C14: a configuration constructed without allow_shared_key_access gets
\* False exactly when storage is Blob and provision is Persistent, and True
\* for the three other combinations; a value that is given, True or False,
\* is kept for every combination.
C14_SharedKeyDefaultOnlyWhenOmitted ==
    pc = "cfg_direct" =>
        /\ config.storage_type = in_storage
        /\ config.provision_type = in_provision
        /\ in_allow = None =>
              /\ config.allow_shared_key_access \in {"True", "False"}
              /\ config.allow_shared_key_access = "False"
                    <=> (in_storage = "Blob" /\ in_provision = "Persistent")
        /\ in_allow # None => config.allow_shared_key_access = in_allow
C14_Witness ==
    /\ pc = "cfg_direct"
    /\ in_allow = None
    /\ config.storage_type = "Blob"
    /\ config.provision_type = "Persistent"
    /\ config.allow_shared_key_access = "False"

\* The role bindings scoped to the storage account.
KeyOperatorKind == "az role assignment create (key operator)"
DataRoleKind == "az role assignment create (data)"
\* The storage-data role of the use case assign_roles runs for.
ClaimedDataRole ==
    IF Self.config.storage_type = "Blob" THEN "Storage Blob Data Contributor"
    ELSE "Storage File Data SMB Share Contributor"
\* The use case is Dynamic and no storage account id is known.
DynamicWithoutAccount ==
    Self.storage_account_id = "" /\ Self.config.provision_type = "Dynamic"

\* C15 as stated: when assign_roles reaches the query of the node resource
\* group, the storage-data role binding of the use case has been issued,
\* for every use case.
C15_Original_DataRoleForEveryCase ==
    pc = "ar_noderg" => (last.kind = DataRoleKind /\ last.flags = {ClaimedDataRole})

\* C15 amended: the key-operator binding and the storage-data binding are
\* issued together or not at all.  For a Dynamic use case with no storage
\* account id known assign_roles issues neither; for every other use case
\* it issues the key-operator binding and then, when that succeeded, the
\* storage-data binding (Blob Data Contributor for Blob, File Data SMB
\* Share Contributor for File), both scoped to the storage account.
C15_StorageRolesIssuedOrSkippedTogether ==
    /\ pc = "ar_keyop" => ~DynamicWithoutAccount
    /\ pc = "ar_data" =>
          /\ ~DynamicWithoutAccount
          /\ last.kind = KeyOperatorKind
          /\ last.rc = 0
          /\ last.scope = Self.storage_account_id
    /\ pc = "ar_noderg" =>
          IF DynamicWithoutAccount
          THEN last.kind \notin {KeyOperatorKind, DataRoleKind}
          ELSE /\ last.kind = DataRoleKind
               /\ last.rc = 0
               /\ last.flags = {ClaimedDataRole}
               /\ last.scope = Self.storage_account_id
C15_Witness ==
    /\ InLoop
    /\ pc = "ar_noderg"
    /\ case_manager.config.storage_type = "File"
    /\ case_manager.config.provision_type = "Dynamic"
    /\ case_manager.storage_account_id = ""
    /\ last.kind = "az account show"
    /\ steps[Len(steps)].name = "assign_roles"

\* C16: in a single-case run in which every external command succeeded,
\* and in which the cluster query returned a node resource group only for
\* a cluster whose creation was issued before in the run, a Reader role
\* assignment on the node resource group has been issued when the run ends.
C16_ReaderRoleIssuedInSingleCaseRun ==
    (ctx = "single" /\ Ended /\ exit_code = 0 /\ all_succeeded /\ ~node_rg_early)
        => "az role assignment create (reader)" \in issued

\* C17: no temporary manifest file of a successful kubectl apply exists
\* when the next command is issued or when the run ends.
C17_TempFileOfSuccessfulApplyDeleted ==
    \A f \in temp_files : ~f.applied

\* The creation commands of the shared setup.
SharedCreateKinds == {"az group create", "az identity create", "az aks create"}
\* The calls of create_storage_account made so far.
CreateStorageAccountCalls ==
    {a \in 1..Len(steps) : steps[a].name = "create_storage_account"}
\* A selected use case is Persistent.
SomePersistentCase == \E n \in 1..Len(use_cases) : use_cases[n].provision = "Persistent"

\* C18: in multi-case mode the commands that create the resource group,
\* the identity and the cluster are each issued at most once, and exactly
\* once when the loop over the use cases runs, whatever the number of
\* cases; create_storage_account is called once, by the shared setup, when
\* a selected case is Persistent and never otherwise, and no step of a use
\* case issues the command that creates a storage account.
C18_SharedResourcesCreatedOnce ==
    ctx \in {"shared", "case"} =>
        /\ \A k \in SharedCreateKinds : count[k] <= 1
        /\ (pc = "loop" \/ InLoop) =>
              /\ \A k \in SharedCreateKinds : count[k] = 1
              /\ Cardinality(CreateStorageAccountCalls) =
                    (IF SomePersistentCase THEN 1 ELSE 0)
        /\ ~SomePersistentCase => (CreateStorageAccountCalls = {} /\ count[CreateKind] = 0)
        /\ \A a \in CreateStorageAccountCalls : steps[a].case = 0
        /\ Cardinality(CreateStorageAccountCalls) <= 1
        /\ InLoop => last.kind \notin SharedCreateKinds \cup {CreateKind}
C18_Witness ==
    /\ InLoop
    /\ Ended
    /\ Len(use_cases) = 4
    /\ Len(results) = 4
    /\ \A k \in SharedCreateKinds : count[k] = 1
    /\ count[CreateKind] = 2
    /\ Cardinality(CreateStorageAccountCalls) = 1

\* C19: when the pre-check of create_storage_account returns exit code 0
\* and a non-empty name, no command that creates a storage account is
\* issued and the id of the existing account is the one the manager keeps;
\* the create command is issued only after a pre-check that failed or
\* printed no name.
C19_ExistingAccountIsReused ==
    /\ last.kind = "az storage account show (exists)" =>
          IF last.rc = 0 /\ last.out # "" THEN pc = "sa_getid" ELSE pc = "sa_create"
    /\ pc = "sa_getid" =>
          /\ last.kind = "az storage account show (exists)"
          /\ last.rc = 0
          /\ last.out # ""
    /\ "az storage account show (existing id)" \in issued => count[CreateKind] = 0
    /\ last.kind = "az storage account show (existing id)" =>
          azure_manager.storage_account_id = last.out
    /\ (pc = "sa_create" /\ count[CreateKind] = 0) =>
          /\ last.kind = "az storage account show (exists)"
          /\ last.rc # 0 \/ last.out = ""
C19_Witness ==
    /\ ctx = "single"
    /\ Ended
    /\ exit_code = 0
    /\ "az storage account show (existing id)" \in issued
    /\ count[CreateKind] = 0
    /\ azure_manager.storage_account_id = "account-id"

\* C20: every discovered field of a manager (identity client id, identity
\* principal id, OIDC issuer URL, storage account id) is assigned at most
\* once after the manager is constructed, in single-case and in multi-case
\* mode.
C20_AttributesAssignedAtMostOnce ==
    \A m \in {"azure_manager", "case_manager"} :
        \A a \in Attributes : assignments[m][a] <= 1


\* C21: the command that creates the cluster carries the blob-driver flag
\* if and only if a use case of the run has storage Blob; a run of File
\* cases only creates the cluster without the flag.
C21_BlobDriverIffBlobCaseSelected ==
    last.kind = "az aks create"
        => (("--enable-blob-driver" \in last.flags) <=> (\E c \in CasesRun : c[1] = "Blob"))


ContainerCreateKinds ==
    {"az storage container create", "az storage container create (case)"}

\* C22: every command that creates a blob container, the one of
\* create_storage_account and the one of a use case in multi-case mode,
\* carries --auth-mode login exactly when the run was started with
\* --disable-shared-key, and no authentication argument otherwise.
C22_ContainerAuthModeFollowsSharedKey ==
    last.kind \in ContainerCreateKinds
        => last.flags = (IF disable_shared_key THEN {"--auth-mode login"} ELSE {})
C22_Witness ==
    /\ last.kind = "az storage container create"
    /\ disable_shared_key
    /\ last.flags = {"--auth-mode login"}
    /\ last.rc = 0


\* The tag the specification gives a (storage, provision) pair.
ClaimedTag(c) ==
    IF c[1] = "Blob" THEN (IF c[2] = "Persistent" THEN "UseCase1" ELSE "UseCase2")
    ELSE (IF c[2] = "Persistent" THEN "UseCase3" ELSE "UseCase4")

\* C23: the UseCaseN tags of the command that creates the resource group
\* are those of the use cases the run executes, and the tag
\* KeyAccess=disabled is among the tags exactly when the run was started
\* with --disable-shared-key.
C23_ResourceGroupTagsMatchUseCases ==
    last.kind = "az group create"
        => /\ last.flags \ {"KeyAccess"} = {ClaimedTag(c) : c \in CasesRun}
           /\ ("KeyAccess" \in last.flags) <=> disable_shared_key
C23_Witness ==
    /\ last.kind = "az group create"
    /\ last.flags = {"UseCase2", "UseCase4"}
    /\ CasesRun = {<<"Blob", "Dynamic">>, <<"File", "Dynamic">>}


\* The wait for the verification job of the current use case ran into its
\* timeout.
WaitTimedOut ==
    /\ last.kind = "kubectl wait" /\ last.rc # 0
    /\ steps[Len(steps)].name = "configure_storage" /\ steps[Len(steps)].case = i

\* C24: when the wait for the verification job fails, the step that
\* configures the storage returns normally and the logs of the job are not
\* read: in multi-case mode the use case gets a results row with success
\* true, and in single-case mode the run ends with exit code 0.
C24_WaitTimeoutIsNotAFailure ==
    WaitTimedOut
        => /\ pc \notin {"st_logs", "dy_logs"}
           /\ steps[Len(steps)].done
           /\ ctx = "single" => (Ended /\ exit_code = 0)
           /\ ctx = "case" => /\ pc \in {"loop", "done"}
                              /\ Len(results) = i
                              /\ results[i].success
C24_Witness ==
    /\ WaitTimedOut
    /\ ctx = "case"
    /\ Len(results) = 2
    /\ results[2].success


RoleKinds == {KeyOperatorKind, DataRoleKind, "az role assignment create (reader)"}

\* C25: every role-assignment command has a non-empty assignee, and the
\* commands of the key-operator role and of the storage-data role have a
\* non-empty scope, whatever the earlier commands returned.
C25_RoleAssignmentsHaveAssigneeAndScope ==
    last.kind \in RoleKinds
        => /\ last.assignee # ""
           /\ last.kind \in {KeyOperatorKind, DataRoleKind} => last.scope # ""


\* Configuration c disallows shared-key access.
KeysDisabled(c) == c.allow_shared_key_access = "False"

\* C26: a configuration with shared-key access disabled is the Blob and
\* Persistent configuration of a single-case run; a storage account is
\* created with shared-key access disabled only for such a configuration;
\* in multi-case mode the base configuration and every per-case
\* configuration allow shared keys and every results row reports keyless
\* support as false.
C26_KeysDisabledOnlyForSingleBlobPersistent ==
    /\ \A c \in Built :
          KeysDisabled(c) => /\ c.storage_type = "Blob"
                             /\ c.provision_type = "Persistent"
                             /\ ctx = "single"
    /\ (last.kind = "az storage account create"
            /\ "--allow-shared-key-access false" \in last.flags)
          => /\ ctx = "single"
             /\ config.storage_type = "Blob" /\ config.provision_type = "Persistent"
    /\ ctx \in {"shared", "case"}
          => /\ \A c \in Built : c.allow_shared_key_access = "True"
             /\ \A n \in 1..Len(results) : ~results[n].keyless
C26_Witness ==
    /\ KeysDisabled(config)
    /\ last.kind = "az storage account create"
    /\ "--allow-shared-key-access false" \in last.flags
    /\ last.rc = 0


\* C27: the configuration of a use case has the unique identifier, the
\* resource group, the identity name, the cluster name and the
\* storage-account name of the base configuration, also for a Dynamic use
\* case, whose storage-account name is not passed on but derived again.
C27_CaseConfigSharesBaseNames ==
    pc = "cfg_case"
        => /\ case_config.unique_id = base_config.unique_id
           /\ case_config.resource_group = base_config.resource_group
           /\ case_config.identity_name = base_config.identity_name
           /\ case_config.cluster_name = base_config.cluster_name
           /\ case_config.storage_account = base_config.storage_account
C27_Witness ==
    /\ pc = "cfg_case"
    /\ case_config.provision_type = "Dynamic"
    /\ case_config.storage_type = "File"
    /\ case_config.storage_account = base_config.storage_account
    /\ Len(case_config.storage_account) > 0
    /\ group # DefaultGroup


\* The last command applied the manifest with description d.
Applied(c, d) == c.kind = "kubectl apply" /\ d \in c.flags

\* One step of C28: the job waited for is the job of the manifest applied
\* just before, the job whose logs are read is the job waited for, and the
\* claim a job manifest refers to is the claim applied just before.
JobAndClaimNamesAgree ==
    /\ (last'.kind = "kubectl wait" /\ last' # last)
          => (Applied(last, "Test Job") /\ last'.name = last.name)
    /\ (last'.kind = "kubectl logs" /\ last' # last)
          => (last.kind = "kubectl wait" /\ last'.name = last.name)
    /\ (Applied(last', "Test Job") /\ last' # last)
          => (Applied(last, "Persistent Volume Claim") /\ last'.claimName = last.name)

\* C28: for every (storage, provision) pair, the job named in the wait
\* command and in the logs command is the job of the manifest the step
\* applied, and the claim that job refers to is the claim the step applied.
C28_JobAndClaimNamesMatchManifests == [][JobAndClaimNamesAgree]_vars
C28_Witness ==
    /\ last.kind = "kubectl logs"
    /\ last.name = <<"static", "file", "creator">>
    /\ Self.config.storage_type = "File" /\ Self.config.provision_type = "Persistent"


\* The manifests of the storage-configuration steps.
StorageManifests == {"Persistent Volume", "Persistent Volume Claim", "Test Job"}
\* Command c applied one of them.
AppliedStorageManifest(c) == \E d \in StorageManifests : Applied(c, d)
\* Command c applied the manifest with description d successfully.
AppliedOk(c, d) == Applied(c, d) /\ c.rc = 0

\* One step of C29.
ManifestsInOrder ==
    last' # last =>
        /\ Applied(last', "Persistent Volume")
              => (Self.config.provision_type = "Persistent" /\ ~AppliedStorageManifest(last))
        /\ Applied(last', "Persistent Volume Claim")
              => IF Self.config.provision_type = "Persistent"
                 THEN AppliedOk(last, "Persistent Volume")
                 ELSE ~AppliedStorageManifest(last)
        /\ Applied(last', "Test Job") => AppliedOk(last, "Persistent Volume Claim")
        /\ last'.kind = "kubectl wait" => AppliedOk(last, "Test Job")
        /\ last'.kind = "kubectl logs" => (last.kind = "kubectl wait" /\ last.rc = 0)

\* C29: a storage-configuration step applies the persistent volume (static
\* only), then the claim, then the job, each only after the one before it
\* was applied successfully; it waits for the job only after the job was
\* applied successfully and reads the logs only after the wait succeeded.
C29_ManifestsAppliedInOrder == [][ManifestsInOrder]_vars
C29_Witness ==
    /\ last.kind = "kubectl logs"
    /\ Self.config.provision_type = "Persistent"
    /\ pc \in {"done", "loop"}


\* The commands of create_storage_account that create the container or the
\* share, and those of a use case in multi-case mode.
AccountStorageKinds == {"az storage container create", "az storage share create"}
CaseStorageKinds ==
    {"az storage container create (case)", "az storage share create (case)"}

\* C30: a container or share command of create_storage_account that fails
\* stops the step and the run with it (single-case mode and the shared
\* setup of multi-case mode); a container or share command of a use case
\* that fails is ignored: the use case goes on with the role assignments and
\* no failure is recorded for it.
C30_StorageFailureRaisesOnlyInAccountStep ==
    /\ (last.kind \in AccountStorageKinds /\ last.rc # 0)
          => /\ ctx \in {"single", "shared"}
             /\ CurrentStep = "create_storage_account" /\ ~steps[Len(steps)].done
             /\ Aborted
    /\ (last.kind \in CaseStorageKinds /\ last.rc # 0)
          => /\ ctx = "case" /\ case_storage_failed
             /\ steps[Len(steps)] = [name |-> "assign_roles", case |-> i, done |-> FALSE]
             /\ pc \in {"ar_keyop", "ar_noderg"}
             /\ Len(results) = i - 1
\* A use case whose container or share command failed is recorded as
\* successful.
C30_Witness ==
    /\ ctx = "case" /\ case_storage_failed
    /\ Len(results) = i
    /\ results[i].success
    /\ CurrentStep = "configure_storage" /\ steps[Len(steps)].case = i

=============================================================================
